---- MODULE Spec2Model ----
(***************************************************************************)
(* Model of src/bot.py: an RSS-to-Telegram bot.  A repeating job           *)
(* (check_rss_feed) fetches a feed, sends every entry whose identity is    *)
(* not in the sent-item set, and records the identity in memory            *)
(* (sent_item_ids) and in an append-only text file (SENT_ITEMS_FILE).      *)
(*                                                                         *)
(* Strings are sequences of one-character strings, so that strip(), the    *)
(* line splitting of load_sent_items and the "\n" appended by              *)
(* save_sent_item are computed, not assumed.  The file holds the bytes of  *)
(* its text in UTF-8, the encoding open() uses; a byte is the one-character *)
(* string of the same number.  Python's None is the                        *)
(* sentinel None below.  A feed entry is a record holding exactly the keys *)
(* the entry has (entry.get(k, d) is Get(entry, k, d)).                    *)
(***************************************************************************)
EXTENDS Integers, Sequences, FiniteSets, TLC

VARIABLES
    sent_items_file,        \* the bytes of SENT_ITEMS_FILE, or NoFile, or NotText
    disk,                   \* "ok": writes succeed; "faulty": any call of open()
                            \* and write() can raise, write() also after a part
                            \* of the line reached the file
    sent_item_ids,          \* the global set of line 28
    TARGET_CHAT_ID,         \* os.environ.get("CHAT_ID"), line 14
    TELEGRAM_TOKEN,         \* os.environ.get("BOT_TOKEN"), line 13
    bot_data,               \* application.bot_data
    pc,                     \* where the process is: "boot", "idle" (no job running),
                            \* "loop", "send_full", "send_short", "sleep", "return",
                            \* "exited" (main() ended before the job was scheduled)
    entries,                \* feed.entries of the running cycle, in feed order
    idx,                    \* position of the for loop in reversed(feed.entries)
    current_target_chat_id, \* local of check_rss_feed
    new_items_found,        \* local of check_rss_feed
    errors,                 \* logger.error calls of the running cycle
    outcome,                \* how the running cycle ends: "none", "nodest", "bozo",
                            \* "exception", "done"; "running" until then
    sends,                  \* send_message calls of the running cycle, in order
    startStore,             \* sent_item_ids when the running cycle began
    prevFailed,             \* ids whose send failed (non-oversize) in the cycle before
    compose                 \* state of the message-composition specification

vars == <<sent_items_file, disk, sent_item_ids, TARGET_CHAT_ID, TELEGRAM_TOKEN, bot_data, pc,
          entries, idx, current_target_chat_id, new_items_found, errors, outcome,
          sends, startStore, prevFailed, compose>>

cycleVars == <<entries, idx, current_target_chat_id, new_items_found, errors,
               outcome, sends, startStore, prevFailed>>

-----------------------------------------------------------------------------
(* Values *)

None == <<"None">>
NoFile == <<"ENOENT">>

\* SENT_ITEMS_FILE is there and open() of it raises: it is a directory
NotText == <<"EILSEQ">>
NL == "\n"
CR == "\r"

\* The characters str.strip() removes, among the characters a string of the
\* model can hold (those up to U+00FF): space, \n, \t, \r, \f, U+000B,
\* U+001C to U+001F, U+0085 and U+00A0.
Whitespace ==
    {" ", NL, "\t", CR, "\f", "", "", "", "", "", "", " "}

\* bool(x) of a string or None
\* The characters U+0080 to U+00BF; they are the bytes 80 to BF as well,
\* the second byte of a character of two bytes.
Hi1 ==
    << "", "", "", "", "", "", "", "", "", "", "", "", "", "", "", "",
       "", "", "", "", "", "", "", "", "", "", "", "", "", "", "", "",
       " ", "¡", "¢", "£", "¤", "¥", "¦", "§", "¨", "©", "ª", "«", "¬", "­", "®", "¯",
       "°", "±", "²", "³", "´", "µ", "¶", "·", "¸", "¹", "º", "»", "¼", "½", "¾", "¿" >>

\* The characters U+00C0 to U+00FF; as bytes, C0 to FF.
Hi2 ==
    << "À", "Á", "Â", "Ã", "Ä", "Å", "Æ", "Ç", "È", "É", "Ê", "Ë", "Ì", "Í", "Î", "Ï",
       "Ð", "Ñ", "Ò", "Ó", "Ô", "Õ", "Ö", "×", "Ø", "Ù", "Ú", "Û", "Ü", "Ý", "Þ", "ß",
       "à", "á", "â", "ã", "ä", "å", "æ", "ç", "è", "é", "ê", "ë", "ì", "í", "î", "ï",
       "ð", "ñ", "ò", "ó", "ô", "õ", "ö", "÷", "ø", "ù", "ú", "û", "ü", "ý", "þ", "ÿ" >>

\* the first byte of the characters of Hi1 and of those of Hi2
LeadC2 == Hi2[3]
LeadC3 == Hi2[4]

IsNotNone(x) == x # None
Truthy(x) == x # None /\ x # <<>>

\* x or y
Or(x, y) == IF Truthy(x) THEN x ELSE y

Get(d, k, default) == IF k \in DOMAIN d THEN d[k] ELSE default

MAX_MESSAGE_LENGTH == 4096

-----------------------------------------------------------------------------
(* Bounds and inputs *)

MaxFeedLen == 2

\* the longest SENT_ITEMS_FILE a write that raises part-way leaves behind,
\* in bytes
DiskRoom == 1

IdA == <<"a">>
\* an id of one character that is two bytes in the file
IdB == <<"é">>
IdC == <<"c">>
Url == <<"u">>
T == <<"t">>

\* The entries a feed can hold.  feedparser strips element text, so no
\* identity has leading or trailing whitespace.
EntryPool ==
    { [id |-> IdA, link |-> Url, title |-> T],     \* a complete entry
      [id |-> IdB, title |-> T],                   \* no link
      [link |-> IdA, title |-> T],                 \* no id: identity is the link
      [id |-> <<>>, link |-> <<>>, title |-> T],   \* empty id, empty link
      [title |-> T],                               \* neither id nor link
      [id |-> IdC, link |-> Url] }                 \* no title

RECURSIVE SeqsUpTo(_, _)
SeqsUpTo(S, n) ==
    IF n = 0 THEN {<<>>}
    ELSE LET shorter == SeqsUpTo(S, n - 1)
         IN  shorter \cup {Append(s, e) : s \in {t \in shorter : Len(t) = n - 1}, e \in S}

Feeds == SeqsUpTo(EntryPool, MaxFeedLen)

\* What SENT_ITEMS_FILE can hold when the process starts; the fourth one is
\* the bytes 61 0A FF 0A, which are not UTF-8, the last one the bytes of
\* " a \n\né\n".
InitialFiles ==
    { NoFile,
      NotText,
      <<>>,
      <<"a", NL, Hi2[64], NL>>,
      <<"a", NL>>,
      <<" ", "a", " ", NL, NL, LeadC3, Hi1[42], NL>> }

Chats == {<<"1">>, <<"2">>}
Token == <<"k">>
ConfiguredChat == <<"9">>

-----------------------------------------------------------------------------
(* load_sent_items / save_sent_item *)

RECURSIVE LStrip(_)
LStrip(s) ==
    IF s # <<>> /\ Head(s) \in Whitespace THEN LStrip(Tail(s)) ELSE s

RECURSIVE RStrip(_)
RStrip(s) ==
    IF s # <<>> /\ s[Len(s)] \in Whitespace THEN RStrip(SubSeq(s, 1, Len(s) - 1)) ELSE s

\* str.strip()
Strip(s) == RStrip(LStrip(s))

\* the bytes 80 to BF, and the characters whose first byte is C3
Continuation == {Hi1[i] : i \in 1..Len(Hi1)}
Upper == {Hi2[i] : i \in 1..Len(Hi2)}

\* the second byte of the characters of Hi2, and back
SecondByte == [c \in Upper |-> Hi1[CHOOSE i \in 1..Len(Hi2) : Hi2[i] = c]]
UpperOf == [b \in Continuation |-> Hi2[CHOOSE i \in 1..Len(Hi1) : Hi1[i] = b]]

\* c.encode("utf-8") for a character up to U+00FF
Utf8(c) ==
    IF c \in Continuation THEN <<LeadC2, c>>
    ELSE IF c \in Upper THEN <<LeadC3, SecondByte[c]>>
    ELSE <<c>>

\* text.encode("utf-8"), what a file opened for text writes of text
RECURSIVE Encode(_)
Encode(text) ==
    IF text = <<>> THEN <<>> ELSE Utf8(Head(text)) \o Encode(Tail(text))

\* The bytes are UTF-8 text of characters up to U+00FF: every byte from 80
\* on is a C2 or C3 followed by a byte of 80 to BF, or that second byte.
RECURSIVE Decodes(_)
Decodes(bytes) ==
    IF bytes = <<>> THEN TRUE
    ELSE IF Head(bytes) \in {LeadC2, LeadC3}
         THEN /\ Len(bytes) >= 2
              /\ bytes[2] \in Continuation
              /\ Decodes(SubSeq(bytes, 3, Len(bytes)))
         ELSE /\ Head(bytes) \notin Continuation
              /\ Head(bytes) \notin Upper
              /\ Decodes(Tail(bytes))

\* bytes.decode("utf-8") of bytes that decode
RECURSIVE Decode(_)
Decode(bytes) ==
    IF bytes = <<>> THEN <<>>
    ELSE IF Head(bytes) = LeadC2
         THEN <<bytes[2]>> \o Decode(SubSeq(bytes, 3, Len(bytes)))
    ELSE IF Head(bytes) = LeadC3
         THEN <<UpperOf[bytes[2]]>> \o Decode(SubSeq(bytes, 3, Len(bytes)))
    ELSE <<Head(bytes)>> \o Decode(Tail(bytes))

\* open(SENT_ITEMS_FILE, "r") and the reading of lines 34-35 do not raise
Readable(f) == f = NoFile \/ (f # NotText /\ Decodes(f))

\* What open(SENT_ITEMS_FILE, "r") hands over of the decoded content of the
\* file: it reads with universal newlines, "\r\n" and a lone "\r" arrive as "\n".
RECURSIVE UniversalNewlines(_)
UniversalNewlines(raw) ==
    IF raw = <<>> THEN <<>>
    ELSE IF Head(raw) = CR
         THEN IF Len(raw) >= 2 /\ raw[2] = NL
              THEN <<NL>> \o UniversalNewlines(SubSeq(raw, 3, Len(raw)))
              ELSE <<NL>> \o UniversalNewlines(Tail(raw))
         ELSE <<Head(raw)>> \o UniversalNewlines(Tail(raw))

\* text cut after each "\n"
RECURSIVE CutLines(_)
CutLines(text) ==
    IF text = <<>> THEN <<>>
    ELSE LET nls == {i \in 1..Len(text) : text[i] = NL}
         IN  IF nls = {} THEN <<text>>
             ELSE LET n == CHOOSE i \in nls : \A j \in nls : i <= j
                  IN  <<SubSeq(text, 1, n)>> \o CutLines(SubSeq(text, n + 1, Len(text)))

\* Iterating the text file: each line with its newline, the last one without
\* when the file does not end in one.
SplitLines(text) == CutLines(UniversalNewlines(text))

\* {line.strip() for line in f if line.strip()}
StrippedLines(text) ==
    LET ls == SplitLines(text)
    IN  {Strip(ls[i]) : i \in {j \in 1..Len(ls) : Strip(ls[j]) # <<>>}}

\* the value of sent_item_ids after load_sent_items()
load_sent_items(old, f) ==
    IF f # NoFile THEN StrippedLines(Decode(f)) ELSE old

\* the ids a load of the file would give; none when the load raises
FileIds(f) == IF Readable(f) THEN load_sent_items({}, f) ELSE {}

\* open(SENT_ITEMS_FILE, "a"): the file is created when it is not there
OpenAppend(f) == IF f = NoFile THEN <<>> ELSE f

\* f.write(item_id + "\n") on a file opened with "a"
AppendLine(f, item_id) ==
    (IF f = NoFile THEN <<>> ELSE f) \o Encode(item_id \o <<NL>>)

-----------------------------------------------------------------------------
(* check_rss_feed helpers *)

RECURSIVE Reverse(_)
Reverse(s) == IF s = <<>> THEN <<>> ELSE Append(Reverse(Tail(s)), Head(s))

\* reversed(feed.entries)
ReversedNative(s) == s
Reversed(s) == Reverse(s)

\* the places of feed.entries in the order the for loop visits them
Order == Reversed([i \in 1..Len(entries) |-> i])

\* the place in feed.entries the loop is at, and the entry there
FeedPos == Order[idx]
Entry == entries[FeedPos]

\* entry.get("id", entry.get("link"))
ItemId(entry) == Get(entry, "id", Get(entry, "link", None))

\* item_id not in sent_item_ids
IsNewAlways(item_id, sent) == TRUE
IsNew(item_id, sent) == item_id \notin sent


\* save_sent_item, line 40
SaveToSetForgets(sent, item_id) == sent
SaveToSet(sent, item_id) == sent \cup {item_id}

\* How lines 41-42 of save_sent_item end is told by w, the number of
\* bytes of the encoded item_id + "\n" that reached the file:
\*   OpenRaises            open() raised, the file is as it was;
\*   0 .. WholeLine - 1    open() created or opened the file and the write
\*                         raised (no room for the rest, or the text cannot
\*                         be encoded): a part of the line is in the file,
\*                         which can end inside a character;
\*   WholeLine             the whole line is written, nothing is raised.
OpenRaises == 0 - 1
WholeLine(item_id) == Len(Encode(item_id \o <<NL>>))
Completed(item_id, w) == w = WholeLine(item_id)

\* save_sent_item, lines 41-42
SaveToFile(f, item_id, w) ==
    IF w = OpenRaises THEN f ELSE OpenAppend(f) \o SubSeq(Encode(item_id \o <<NL>>), 1, w)

\* The ways a save_sent_item(item_id) call can end on this disk.  On a
\* faulty disk every call can go well, open() can raise, and the write can
\* raise with nothing or with a part of the line in the file (the disk is
\* full, and it can have room again at the next call).
WriteOutcomes(item_id) ==
    {WholeLine(item_id)} \cup
    (IF disk = "faulty"
     THEN {OpenRaises, 0} \cup
          {n \in 1..(WholeLine(item_id) - 1) :
               Len(OpenAppend(sent_items_file)) + n <= DiskRoom}
     ELSE {})

Attempt(form) ==
    [pos |-> FeedPos, id |-> ItemId(Entry), form |-> form, res |-> "pending",
     chat |-> current_target_chat_id]

\* the last send_message call returned or raised
Returned(res) == [sends EXCEPT ![Len(sends)].res = res]

NoCompose == [stage |-> "off"]

-----------------------------------------------------------------------------
(* The process *)

InitPipeline ==
    /\ sent_items_file \in InitialFiles
    /\ disk \in {"ok", "faulty"}
    /\ TARGET_CHAT_ID \in {None, ConfiguredChat}
    /\ TELEGRAM_TOKEN \in {None, <<>>, Token}
    /\ sent_item_ids = {}
    /\ bot_data = [chat_id_confirmed |-> FALSE, user_chat_id |-> None]
    /\ pc = "boot"
    /\ entries = <<>>
    /\ idx = 0
    /\ current_target_chat_id = None
    /\ new_items_found = 0
    /\ errors = 0
    /\ outcome = "none"
    /\ sends = <<>>
    /\ startStore = {}
    /\ prevFailed = {}

Init == InitPipeline /\ compose = NoCompose

\* main(), lines 172-174: BOT_TOKEN is unset or empty, main() returns; no
\* set is loaded, no handler and no job exist, and the process ends
MainNoToken ==
    /\ pc = "boot"
    /\ ~Truthy(TELEGRAM_TOKEN)
    /\ pc' = "exited"
    /\ UNCHANGED <<sent_items_file, disk, sent_item_ids, TARGET_CHAT_ID, TELEGRAM_TOKEN,
                   bot_data, cycleVars, compose>>

\* main(), line 179: load_sent_items() raises (line 34 or 35) out of main();
\* the process ends before bot_data and the job exist
MainLoadRaises ==
    /\ pc = "boot"
    /\ Truthy(TELEGRAM_TOKEN)
    /\ ~Readable(sent_items_file)
    /\ pc' = "exited"
    /\ UNCHANGED <<sent_items_file, disk, sent_item_ids, TARGET_CHAT_ID, TELEGRAM_TOKEN,
                   bot_data, cycleVars, compose>>

\* main(): load_sent_items(), bot_data set up, the repeating job scheduled
Main ==
    /\ pc = "boot"
    /\ Truthy(TELEGRAM_TOKEN)
    /\ Readable(sent_items_file)
    /\ sent_item_ids' = load_sent_items(sent_item_ids, sent_items_file)
    /\ bot_data' = IF Truthy(TARGET_CHAT_ID)
                   THEN [chat_id_confirmed |-> TRUE, user_chat_id |-> TARGET_CHAT_ID]
                   ELSE [chat_id_confirmed |-> FALSE, user_chat_id |-> None]
    /\ pc' = "idle"
    /\ UNCHANGED <<sent_items_file, disk, TARGET_CHAT_ID, TELEGRAM_TOKEN, cycleVars, compose>>

\* the /start handler, lines 140-142; it runs between the awaits of a
\* running job.  What follows in the handler (the welcome message, lines
\* 144-156) changes no state of the bot.
Start(chat) ==
    /\ pc \in {"idle", "send_full", "send_short", "sleep"}
    /\ bot_data' = [chat_id_confirmed |-> TRUE, user_chat_id |-> chat]
    /\ UNCHANGED <<sent_items_file, disk, sent_item_ids, TARGET_CHAT_ID, TELEGRAM_TOKEN, pc, cycleVars, compose>>

\* ids whose full-form send raised something other than "message is too long"
FailedIds == {sends[i].id : i \in {j \in 1..Len(sends) :
                                    sends[j].form = "full" /\ sends[j].res = "error"}}

\* lines 47 and 51-52: is there a chat to send to
HasDestinationUnchecked == TRUE
HasDestination ==
    /\ bot_data.chat_id_confirmed \/ Truthy(TARGET_CHAT_ID)
    /\ Truthy(Or(TARGET_CHAT_ID, bot_data.user_chat_id))

\* When the scheduler starts the job.  src/bot.py registers it at line 195
\* and holds no guard; the spec (section 5) requires of the scheduler that
\* no cycle starts while one is in flight, and that requirement is taken
\* here as given.
SchedulerStartsJob == pc = "idle"

\* check_rss_feed is entered: the bookkeeping of the model for a new cycle
BeginCycle ==
    /\ SchedulerStartsJob
    /\ sends' = <<>>
    /\ startStore' = sent_item_ids
    /\ new_items_found' = 0
    /\ UNCHANGED <<sent_items_file, disk, sent_item_ids, TARGET_CHAT_ID, TELEGRAM_TOKEN, bot_data,
                   prevFailed, compose>>

\* lines 47-54: no destination, return
CycleNoDestination ==
    /\ BeginCycle
    /\ ~HasDestination
    /\ outcome' = "nodest"
    /\ errors' = IF bot_data.chat_id_confirmed \/ Truthy(TARGET_CHAT_ID) THEN 1 ELSE 0
    /\ entries' = <<>>
    /\ idx' = 0
    /\ current_target_chat_id' = None
    /\ pc' = "return"

CycleBozoPartial ==
    /\ BeginCycle
    /\ HasDestination
    /\ outcome' = "bozo"
    /\ errors' = 1
    /\ entries' = <<[id |-> IdB, title |-> T]>>
    /\ idx' = 1
    /\ current_target_chat_id' = Or(TARGET_CHAT_ID, bot_data.user_chat_id)
    /\ pc' = "loop"

\* lines 58-63: feed.bozo set, return; feed.entries is never read
CycleBozo ==
    /\ BeginCycle
    /\ HasDestination
    /\ outcome' = "bozo"
    /\ errors' = 1
    /\ entries' = <<>>
    /\ idx' = 0
    /\ current_target_chat_id' = Or(TARGET_CHAT_ID, bot_data.user_chat_id)
    /\ pc' = "return"

\* line 58 raises, lines 132-133
CycleParseRaises ==
    /\ BeginCycle
    /\ HasDestination
    /\ outcome' = "exception"
    /\ errors' = 1
    /\ entries' = <<>>
    /\ idx' = 0
    /\ current_target_chat_id' = Or(TARGET_CHAT_ID, bot_data.user_chat_id)
    /\ pc' = "return"

\* lines 47-66: the feed is parsed and the loop entered
CycleFetch(feed) ==
    /\ BeginCycle
    /\ HasDestination
    /\ outcome' = "running"
    /\ errors' = 0
    /\ entries' = feed
    /\ idx' = 1
    /\ current_target_chat_id' = Or(TARGET_CHAT_ID, bot_data.user_chat_id)
    /\ pc' = "loop"

InLoop == pc = "loop" /\ idx <= Len(entries)

\* lines 127-130: the loop is over
LoopExit ==
    /\ pc = "loop"
    /\ idx > Len(entries)
    /\ outcome' = "done"
    /\ pc' = "return"
    /\ UNCHANGED <<sent_items_file, disk, sent_item_ids, TARGET_CHAT_ID, TELEGRAM_TOKEN, bot_data, entries,
                   idx, current_target_chat_id, new_items_found, errors, sends, startStore,
                   prevFailed, compose>>

\* lines 68-71: no identity, continue
SkipNoIdentity ==
    /\ InLoop
    /\ ~Truthy(ItemId(Entry))
    /\ idx' = idx + 1
    /\ UNCHANGED <<sent_items_file, disk, sent_item_ids, TARGET_CHAT_ID, TELEGRAM_TOKEN, bot_data, pc,
                   entries, current_target_chat_id, new_items_found, errors, outcome,
                   sends, startStore, prevFailed, compose>>

\* line 73 false: already sent
SkipSent ==
    /\ InLoop
    /\ Truthy(ItemId(Entry))
    /\ ~IsNew(ItemId(Entry), sent_item_ids)
    /\ idx' = idx + 1
    /\ UNCHANGED <<sent_items_file, disk, sent_item_ids, TARGET_CHAT_ID, TELEGRAM_TOKEN, bot_data, pc,
                   entries, current_target_chat_id, new_items_found, errors, outcome,
                   sends, startStore, prevFailed, compose>>

NewItemRaisesEscapes ==
    /\ InLoop
    /\ Truthy(ItemId(Entry))
    /\ IsNew(ItemId(Entry), sent_item_ids)
    /\ "title" \notin DOMAIN Entry
    /\ outcome' = "exception"
    /\ pc' = "raised"
    /\ UNCHANGED <<sent_items_file, disk, sent_item_ids, TARGET_CHAT_ID, TELEGRAM_TOKEN, bot_data, entries,
                   idx, current_target_chat_id, new_items_found, errors, sends, startStore,
                   prevFailed, compose>>

\* line 74: entry.title of an entry without title raises AttributeError,
\* caught at lines 132-133: the cycle ends
NewItemRaises ==
    /\ InLoop
    /\ Truthy(ItemId(Entry))
    /\ IsNew(ItemId(Entry), sent_item_ids)
    /\ "title" \notin DOMAIN Entry
    /\ errors' = errors + 1
    /\ outcome' = "exception"
    /\ pc' = "return"
    /\ UNCHANGED <<sent_items_file, disk, sent_item_ids, TARGET_CHAT_ID, TELEGRAM_TOKEN, bot_data, entries,
                   idx, current_target_chat_id, new_items_found, sends, startStore,
                   prevFailed, compose>>

\* lines 73-106: the full message is composed and send_message awaited
SendFull ==
    /\ InLoop
    /\ Truthy(ItemId(Entry))
    /\ IsNew(ItemId(Entry), sent_item_ids)
    /\ "title" \in DOMAIN Entry
    /\ sends' = Append(sends, Attempt("full"))
    /\ pc' = "send_full"
    /\ UNCHANGED <<sent_items_file, disk, sent_item_ids, TARGET_CHAT_ID, TELEGRAM_TOKEN, bot_data, entries,
                   idx, current_target_chat_id, new_items_found, errors, outcome,
                   startStore, prevFailed, compose>>

\* lines 107-110 after send_message returned: save_sent_item, count, sleep;
\* what save_sent_item raises is caught at line 110 and is not "too long"
Saved(w, next) ==
    /\ sent_item_ids' = SaveToSet(sent_item_ids, ItemId(Entry))
    /\ sent_items_file' = SaveToFile(sent_items_file, ItemId(Entry), w)
    /\ IF Completed(ItemId(Entry), w)
       THEN /\ new_items_found' = new_items_found + 1
            /\ pc' = next
            /\ idx' = IF next = "loop" THEN idx + 1 ELSE idx
            /\ UNCHANGED errors
       ELSE /\ errors' = errors + 1
            /\ pc' = "loop"
            /\ idx' = idx + 1
            /\ UNCHANGED new_items_found

FullSendOk ==
    /\ pc = "send_full"
    /\ \E w \in WriteOutcomes(ItemId(Entry)) : Saved(w, "sleep")
    /\ sends' = Returned("ok")
    /\ UNCHANGED <<disk, TARGET_CHAT_ID, TELEGRAM_TOKEN, bot_data, entries, current_target_chat_id,
                   outcome, startStore, prevFailed, compose>>

\* line 109 returned.  (asyncio is bound at line 205, when the file runs as
\* a script; were it not, the NameError is caught at line 110 after the id
\* was saved and counted, and the loop goes on the same way.)
SleepDone ==
    /\ pc = "sleep"
    /\ pc' = "loop"
    /\ idx' = idx + 1
    /\ UNCHANGED <<sent_items_file, disk, sent_item_ids, TARGET_CHAT_ID, TELEGRAM_TOKEN, bot_data, entries,
                   current_target_chat_id, new_items_found, errors, outcome, sends,
                   startStore, prevFailed, compose>>

\* lines 110-120: send_message raised "message is too long"; the short
\* message is composed and send_message awaited
FullSendTooLong ==
    /\ pc = "send_full"
    /\ errors' = errors + 1
    /\ sends' = Append(Returned("too_long"), Attempt("short"))
    /\ pc' = "send_short"
    /\ UNCHANGED <<sent_items_file, disk, sent_item_ids, TARGET_CHAT_ID, TELEGRAM_TOKEN, bot_data, entries,
                   idx, current_target_chat_id, new_items_found, outcome, startStore,
                   prevFailed, compose>>

\* lines 110-113: send_message raised anything else
FullSendError ==
    /\ pc = "send_full"
    /\ errors' = errors + 1
    /\ sends' = Returned("error")
    /\ pc' = "loop"
    /\ idx' = idx + 1
    /\ UNCHANGED <<sent_items_file, disk, sent_item_ids, TARGET_CHAT_ID, TELEGRAM_TOKEN, bot_data, entries,
                   current_target_chat_id, new_items_found, outcome, startStore,
                   prevFailed, compose>>

\* lines 121-124 after the short send_message returned
ShortSendOk ==
    /\ pc = "send_short"
    /\ \E w \in WriteOutcomes(ItemId(Entry)) : Saved(w, "loop")
    /\ sends' = Returned("ok")
    /\ UNCHANGED <<disk, TARGET_CHAT_ID, TELEGRAM_TOKEN, bot_data, entries, current_target_chat_id,
                   outcome, startStore, prevFailed, compose>>

\* lines 123-124: the short send_message raised
ShortSendError ==
    /\ pc = "send_short"
    /\ errors' = errors + 1
    /\ sends' = Returned("error")
    /\ pc' = "loop"
    /\ idx' = idx + 1
    /\ UNCHANGED <<sent_items_file, disk, sent_item_ids, TARGET_CHAT_ID, TELEGRAM_TOKEN, bot_data, entries,
                   current_target_chat_id, new_items_found, outcome, startStore,
                   prevFailed, compose>>

\* check_rss_feed returns: its locals are gone, the job waits for the next
\* interval
Return ==
    /\ pc = "return"
    /\ pc' = "idle"
    /\ prevFailed' = FailedIds
    /\ entries' = <<>>
    /\ idx' = 0
    /\ current_target_chat_id' = None
    /\ new_items_found' = 0
    /\ errors' = 0
    /\ outcome' = "none"
    /\ sends' = <<>>
    /\ startStore' = {}
    /\ UNCHANGED <<sent_items_file, disk, sent_item_ids, TARGET_CHAT_ID, TELEGRAM_TOKEN, bot_data, compose>>

\* the process dies and is started again; only the file survives
Restart ==
    /\ pc # "boot"
    /\ pc' = "boot"
    /\ sent_item_ids' = {}
    /\ bot_data' = [chat_id_confirmed |-> FALSE, user_chat_id |-> None]
    /\ entries' = <<>>
    /\ idx' = 0
    /\ current_target_chat_id' = None
    /\ new_items_found' = 0
    /\ errors' = 0
    /\ outcome' = "none"
    /\ sends' = <<>>
    /\ startStore' = {}
    /\ prevFailed' = {}
    /\ UNCHANGED <<sent_items_file, disk, TARGET_CHAT_ID, TELEGRAM_TOKEN, compose>>

\* the process dies inside save_sent_item, after open() of line 41 and
\* before the line written at line 42 has left the buffer of f (it is
\* flushed when the with block closes f), and is started again.  Dying
\* before line 41 is Restart at the await of the send; dying after the with
\* block is Restart after the save.
CrashInSave ==
    /\ pc \in {"send_full", "send_short"}
    /\ sent_items_file' = OpenAppend(sent_items_file)
    /\ pc' = "boot"
    /\ sent_item_ids' = {}
    /\ bot_data' = [chat_id_confirmed |-> FALSE, user_chat_id |-> None]
    /\ entries' = <<>>
    /\ idx' = 0
    /\ current_target_chat_id' = None
    /\ new_items_found' = 0
    /\ errors' = 0
    /\ outcome' = "none"
    /\ sends' = <<>>
    /\ startStore' = {}
    /\ prevFailed' = {}
    /\ UNCHANGED <<disk, TARGET_CHAT_ID, TELEGRAM_TOKEN, compose>>

Next ==
    \/ MainNoToken
    \/ MainLoadRaises
    \/ Main
    \/ \E chat \in Chats : Start(chat)
    \/ CycleNoDestination
    \/ CycleBozo
    \/ CycleParseRaises
    \/ \E feed \in Feeds : CycleFetch(feed)
    \/ LoopExit
    \/ SkipNoIdentity
    \/ SkipSent
    \/ NewItemRaises
    \/ SendFull
    \/ FullSendOk
    \/ SleepDone
    \/ FullSendTooLong
    \/ FullSendError
    \/ ShortSendOk
    \/ ShortSendError
    \/ Return
    \/ Restart
    \/ CrashInSave

Spec == Init /\ [][Next]_vars

\* the same process on a disk whose writes never fail
InitReliable == Init /\ disk = "ok"
SpecReliable == InitReliable /\ [][Next]_vars

-----------------------------------------------------------------------------
(* Message composition, lines 76-97 and 115.                               *)
(* A text is known by how many of its characters html.escape leaves alone  *)
(* (plain), and how many it replaces: "&" by 5 characters (amp), "<" or    *)
(* ">" by 4 (angle), a quote by 6 (quote).  The description is copied into *)
(* the message as it is, so it is known by its length alone.               *)

Text(plain, amp, angle, quote) ==
    [plain |-> plain, amp |-> amp, angle |-> angle, quote |-> quote]

\* len(s)
TextLen(t) == t.plain + t.amp + t.angle + t.quote

\* len(html.escape(s))
EscapedLen(t) == t.plain + 5 * t.amp + 4 * t.angle + 6 * t.quote

\* len(s[:n]) for a string of length len
SliceLen(len, n) ==
    IF n >= 0 THEN (IF len < n THEN len ELSE n)
    ELSE (IF len + n > 0 THEN len + n ELSE 0)

NoTitle == Text(8, 0, 0, 0)      \* "No Title"
Empty == Text(0, 0, 0, 0)        \* ""

\* line 84: len(f"<b>{html.escape(title)}</b>\n\n")
TitleBlockLen(title) == 3 + EscapedLen(title) + 6

\* line 89
MaxDescLen(title, link) ==
    MAX_MESSAGE_LENGTH - TitleBlockLen(title) - TextLen(link) - 50

\* lines 85-92: what the description adds to the message
DescBlockLen(title, link, description) ==
    IF description = 0 THEN 0
    ELSE IF description > MaxDescLen(title, link)
         THEN SliceLen(description, MaxDescLen(title, link)) + 3 + 2
         ELSE description + 2

\* lines 94-97: <a href="...">Read more</a>, or "No link available."
LinkBlockLen(link) ==
    IF TextLen(link) > 0 THEN 9 + EscapedLen(link) + 2 + 9 + 4 ELSE 18

\* lines 76-97: len(message) of an entry
FullMessageLen(entry) ==
    LET title == Get(entry, "title", NoTitle)
        link == Get(entry, "link", Empty)
        description == Get(entry, "summary", Get(entry, "description", 0))
    IN  TitleBlockLen(title) + DescBlockLen(title, link, description) + LinkBlockLen(link)

\* line 115: len(short_message)
ShortMessageLen(entry) ==
    LET title == Get(entry, "title", NoTitle)
        link == Get(entry, "link", Empty)
    IN  3 + EscapedLen(title) + 6 + 9 + EscapedLen(link) + 2 + 9 + 4

TitleTexts ==
    {Text(n, a, 0, 0) : n \in {1, 4037, 4100}, a \in {0, 1}}
LinkTexts ==
    {Empty, Text(20, 0, 0, 0), Text(20, 5, 0, 0), Text(20, 6, 0, 0), Text(20, 0, 1, 3)}
SummaryLens == {0, 30, 5000}
DescriptionLens == {100}

WithKey(S, k) == {[x \in {} |-> 0]} \cup {[x \in {k} |-> v] : v \in S}

\* the entries whose message is composed; they have a title, line 74 has
\* read it
ComposeEntries ==
    {t @@ l @@ sm @@ d : t \in {[title |-> v] : v \in TitleTexts}, l \in WithKey(LinkTexts, "link"),
                         sm \in WithKey(SummaryLens, "summary"),
                         d \in WithKey(DescriptionLens, "description")}

InitCompose ==
    /\ InitPipeline
    /\ sent_items_file = NoFile
    /\ disk = "ok"
    /\ TARGET_CHAT_ID = None
    /\ \E e \in ComposeEntries :
           compose = [stage |-> "entry", entry |-> e, message |-> 0, short_message |-> 0]

\* lines 76-97
ComposeFull ==
    /\ compose.stage = "entry"
    /\ compose' = [compose EXCEPT !.stage = "full", !.message = FullMessageLen(compose.entry)]
    /\ UNCHANGED <<sent_items_file, disk, sent_item_ids, TARGET_CHAT_ID, TELEGRAM_TOKEN, bot_data, pc,
                   cycleVars>>

\* line 115
ComposeShort ==
    /\ compose.stage = "full"
    /\ compose' = [compose EXCEPT !.stage = "short",
                                  !.short_message = ShortMessageLen(compose.entry)]
    /\ UNCHANGED <<sent_items_file, disk, sent_item_ids, TARGET_CHAT_ID, TELEGRAM_TOKEN, bot_data, pc,
                   cycleVars>>

NextCompose == ComposeFull \/ ComposeShort

SpecCompose == InitCompose /\ [][NextCompose]_vars

-----------------------------------------------------------------------------
(* Properties *)

SendIdx == 1..Len(sends)

\* a cycle that parsed the feed is over (the loop ended or an exception ended it)
CycleOver == pc = "return" /\ outcome \in {"done", "exception"}

\* the identities of the feed of the cycle
FeedIds == {ItemId(entries[k]) : k \in {j \in 1..Len(entries) : Truthy(ItemId(entries[j]))}}

SendsOf(item_id) == {i \in SendIdx : sends[i].id = item_id}

\* C1: an id that is in sent_item_ids when a cycle begins is passed to no
\* send_message call (full or short form) of that cycle.
C1_NoDuplicateDelivery ==
    \A i \in SendIdx : sends[i].id \notin startStore

\* a cycle ended that met an entry already in the store and sent another one
C1_Witness ==
    /\ CycleOver
    /\ FeedIds \cap startStore # {}
    /\ \E i \in SendIdx : sends[i].res = "ok"

\* C2: a cycle in which every send succeeds sends each id of F \ S exactly
\* once and no id of F \cap S, and ends with the set and the file both equal
\* to S \cup F (S the store at the start, F the ids of the feed).
C2_RestartIdempotence ==
    (CycleOver /\ \A i \in SendIdx : sends[i].res = "ok") =>
        /\ \A item_id \in FeedIds \ startStore : Cardinality(SendsOf(item_id)) = 1
        /\ \A item_id \in FeedIds \cap startStore : SendsOf(item_id) = {}
        /\ sent_item_ids = startStore \cup FeedIds
        /\ FileIds(sent_items_file) = startStore \cup FeedIds

\* C3: if entry x is after entry y in feed.entries, every send attempt for
\* x comes before every send attempt for y.
C3_OldestFirst ==
    \A i, j \in SendIdx : sends[i].pos > sends[j].pos => i < j

\* two entries of one feed were sent
C3_Witness ==
    \E i, j \in SendIdx : sends[i].pos # sends[j].pos

\* C4: when a cycle is over, every entry of the feed that has a title and
\* an identity which was not in the store, and none of whose sends failed,
\* is delivered and recorded, whatever else the feed holds.
C4_EventualDelivery ==
    CycleOver =>
        \A k \in 1..Len(entries) :
            ( /\ "title" \in DOMAIN entries[k]
              /\ Truthy(ItemId(entries[k]))
              /\ ItemId(entries[k]) \notin startStore
              /\ \A i \in SendIdx : sends[i].pos = k => sends[i].res = "ok" )
            => /\ ItemId(entries[k]) \in sent_item_ids
               /\ ItemId(entries[k]) \in FileIds(sent_items_file)

\* C5 (a): after a full-form send that failed as oversize, the next send
\* attempt is the short form of the same entry.
C5_NextIsShort ==
    \A i \in SendIdx :
        (sends[i].form = "full" /\ sends[i].res = "too_long") =>
            /\ i < Len(sends)
            /\ sends[i + 1].form = "short"
            /\ sends[i + 1].pos = sends[i].pos
            /\ sends[i + 1].id = sends[i].id

\* C5 (b): the short form is sent only right after the full-form send of
\* the same entry failed as oversize, in the same cycle.
C5_ShortOnlyAfterOversize ==
    \A j \in SendIdx :
        sends[j].form = "short" =>
            /\ j > 1
            /\ sends[j - 1].form = "full"
            /\ sends[j - 1].res = "too_long"
            /\ sends[j - 1].pos = sends[j].pos

\* C5 (c): a short send that succeeds records the id and counts it; one
\* that fails leaves set, file and count as they were.
C5_ShortOutcome ==
    /\ (pc = "send_short" /\ sends' = Returned("ok")) =>
           /\ ItemId(Entry) \in sent_item_ids'
           /\ ItemId(Entry) \in FileIds(sent_items_file')
           /\ new_items_found' = new_items_found + 1
    /\ (pc = "send_short" /\ sends' = Returned("error")) =>
           UNCHANGED <<sent_item_ids, sent_items_file, new_items_found>>

\* C5: oversize fallback, (a), (b) and (c) together.
C5_OversizeFallback ==
    /\ [](C5_NextIsShort /\ C5_ShortOnlyAfterOversize)
    /\ [][C5_ShortOutcome]_vars

\* C6: the full message of an entry whose description is longer than
\* max_desc_len is at most MAX_MESSAGE_LENGTH long.
C6_TruncationBound ==
    LET e == compose.entry
        description == Get(e, "summary", Get(e, "description", 0))
    IN  ( /\ compose.stage \in {"full", "short"}
          /\ description > 0
          /\ description > MaxDescLen(Get(e, "title", NoTitle), Get(e, "link", Empty)) )
        => compose.message <= MAX_MESSAGE_LENGTH

\* C7: the short message of every entry is at most MAX_MESSAGE_LENGTH long.
C7_ShortFormBound ==
    compose.stage = "short" => compose.short_message <= MAX_MESSAGE_LENGTH

\* C8: an entry whose full-form send failed with a non-oversize error in
\* the cycle before, and whose id is still unrecorded, is attempted again
\* in the next cycle that parses a feed holding it.
C8_RetriedNextCycle ==
    CycleOver =>
        \A k \in 1..Len(entries) :
            ( /\ "title" \in DOMAIN entries[k]
              /\ ItemId(entries[k]) \in prevFailed
              /\ ItemId(entries[k]) \notin startStore )
            => SendsOf(ItemId(entries[k])) # {}

\* C8, the step of the failure: a full-form send that raised something other
\* than "message is too long" changes neither set nor file, sends no short
\* form and goes on to the next entry.
C8_FailureStep ==
    [][ (pc = "send_full" /\ sends' = Returned("error")) =>
            /\ UNCHANGED <<sent_item_ids, sent_items_file, new_items_found>>
            /\ pc' = "loop"
            /\ idx' = idx + 1 ]_vars

\* C9: when save_sent_item raises after a send that succeeded (the file is
\* left as it was), the id is not in sent_item_ids afterwards.
C9_FailedRecordNotConfirmed ==
    [][ ( /\ pc \in {"send_full", "send_short"}
          /\ sends' = Returned("ok")
          /\ sent_items_file' = sent_items_file )
        => ItemId(Entry) \notin sent_item_ids' ]_vars

\* C10: the step of the loop at an entry without id and link sends
\* nothing, records nothing, counts nothing, logs no error and goes on to
\* the next entry.
C10_MissingIdentityDropped ==
    [][ ( /\ InLoop
          /\ Get(Entry, "id", <<>>) = <<>>
          /\ Get(Entry, "link", <<>>) = <<>>
          /\ pc' # "boot" )
        => /\ pc' = "loop"
           /\ idx' = idx + 1
           /\ UNCHANGED <<sent_item_ids, sent_items_file, sends, new_items_found,
                          errors, outcome>> ]_vars

\* a cycle dropped an entry without identity and sent the entry after it
C10_Witness ==
    /\ CycleOver
    /\ \E k \in 1..Len(entries), i \in SendIdx :
           /\ Get(entries[k], "id", <<>>) = <<>>
           /\ Get(entries[k], "link", <<>>) = <<>>
           /\ sends[i].pos < k
           /\ sends[i].res = "ok"

\* C11: the step of the loop at a new entry that has an identity and no
\* title sends its full message (with the title "No Title") and leaves the
\* cycle running, as for any other new entry.
C11_MissingTitlePlaceholder ==
    [][ ( /\ InLoop
          /\ Truthy(ItemId(Entry))
          /\ IsNew(ItemId(Entry), sent_item_ids)
          /\ "title" \notin DOMAIN Entry
          /\ pc' # "boot" )
        => /\ pc' = "send_full"
           /\ sends' = Append(sends, Attempt("full"))
           /\ UNCHANGED <<outcome, errors, idx>> ]_vars

\* C12 (a): chat_id_confirmed becomes true only by main() with CHAT_ID set
\* or by a /start interaction.
C12_ConfirmedOnlyByStart ==
    (~bot_data.chat_id_confirmed /\ bot_data'.chat_id_confirmed) =>
        \/ Truthy(TARGET_CHAT_ID)
        \/ bot_data'.user_chat_id \in Chats

\* C12 (b): a cycle that starts with CHAT_ID unset and no /start received
\* returns at once: no feed is fetched, no send attempted, no error logged,
\* and set and file stay as they are.
C12_NoOpStep ==
    ( /\ pc = "idle"
      /\ ~Truthy(TARGET_CHAT_ID)
      /\ ~bot_data.chat_id_confirmed
      /\ pc' \notin {"idle", "boot"} )
    => /\ pc' = "return"
       /\ outcome' = "nodest"
       /\ entries' = <<>>
       /\ sends' = <<>>
       /\ errors' = 0
       /\ UNCHANGED <<sent_item_ids, sent_items_file, bot_data>>

\* C12: with no destination configured and no /start interaction so far, a
\* poll cycle is a no-op, (a) and (b) together.
C12_NoDestinationNoOp == [][C12_ConfirmedOnlyByStart /\ C12_NoOpStep]_vars

\* a cycle without destination returned, with ids in the store
C12_Witness ==
    /\ pc = "return"
    /\ outcome = "nodest"
    /\ ~Truthy(TARGET_CHAT_ID)
    /\ ~bot_data.chat_id_confirmed
    /\ sent_item_ids # {}
    /\ sends = <<>>

\* the cycle ended at the parse of the feed: feed.bozo was set, or
\* feedparser.parse raised
ParseFailed == outcome = "bozo" \/ (outcome = "exception" /\ idx = 0)

\* C13 (a): a cycle whose parse failed has read no entry and made no send,
\* and the set is as it was when the cycle began.
C13_NothingUsed ==
    ParseFailed =>
        /\ pc = "return"
        /\ entries = <<>>
        /\ sends = <<>>
        /\ new_items_found = 0
        /\ sent_item_ids = startStore

\* C13 (b): the step of a cycle whose parse fails changes neither set nor
\* file; (c): the return of any cycle leaves the job idle, with the store
\* and the destination as they are.
C13_AbortStep ==
    /\ (pc = "idle" /\ outcome' \in {"bozo", "exception"}) =>
           /\ pc' = "return"
           /\ UNCHANGED <<sent_item_ids, sent_items_file, bot_data>>
    /\ (pc = "return" /\ pc' # "boot") =>
           /\ pc' = "idle"
           /\ UNCHANGED <<sent_item_ids, sent_items_file, bot_data, TARGET_CHAT_ID, TELEGRAM_TOKEN>>

\* C13 (d): an idle job that has a destination can run a cycle on any feed,
\* whatever the cycles before it did.
C13_NextCycleRuns ==
    (pc = "idle" /\ HasDestination) => \A feed \in Feeds : ENABLED CycleFetch(feed)

\* C13: a failed fetch or parse aborts the cycle with no entry used, no
\* send and the store unchanged, and the next cycle runs normally.
C13_ParseFailureAborts ==
    /\ [](C13_NothingUsed /\ C13_NextCycleRuns)
    /\ [][C13_AbortStep]_vars

\* a cycle of a process that has sent before ended at feed.bozo
C13_Witness ==
    /\ pc = "return"
    /\ outcome = "bozo"
    /\ sent_item_ids # {}
    /\ prevFailed # {}

\* the positions of a running check_rss_feed
InCycle == pc \in {"loop", "send_full", "send_short", "sleep"}

\* C14 (a): the process is at a position of the program: no exception has
\* left check_rss_feed.
C14_NoEscape ==
    pc \in {"boot", "exited", "idle", "loop", "send_full", "send_short", "sleep", "return"}

\* C14 (b): a step that logs an error (fetch, parse, compose, send, short
\* send or save failed) stays inside check_rss_feed: it goes on with the
\* loop, sends the short form, or returns.
C14_FailureHandled ==
    ((pc = "idle" /\ errors' > 0) \/ (InCycle /\ errors' > errors)) =>
        pc' \in {"loop", "send_short", "return"}

\* C14 (c): a running cycle is left only by returning (or by the death of
\* the process), and a cycle that returned leaves the job idle.
C14_ReturnsNormally ==
    /\ (InCycle /\ pc' \notin {"loop", "send_full", "send_short", "sleep"}) =>
           pc' \in {"return", "boot"}
    /\ (pc = "return" /\ pc' # "boot") => pc' = "idle"

\* C14 (d): an idle job can always begin its next cycle.
C14_StillScheduled ==
    pc = "idle" =>
        ENABLED (CycleNoDestination \/ CycleBozo \/ CycleParseRaises \/ CycleFetch(<<>>))

\* C14: no error escapes a poll cycle, and later cycles still run: (a) to
\* (d) together.
C14_NoErrorEscapes ==
    /\ [](C14_NoEscape /\ C14_StillScheduled)
    /\ [][C14_FailureHandled /\ C14_ReturnsNormally]_vars

\* a cycle returned after a send that failed and an exception in the loop
C14_Witness ==
    /\ pc = "return"
    /\ outcome = "exception"
    /\ errors >= 2
    /\ \E i \in SendIdx : sends[i].res = "error"

\* the ids whose send_message call of the running cycle returned
SentOk == {sends[i].id : i \in {j \in SendIdx : sends[j].res = "ok"}}

\* C16 (a): with CHAT_ID unset, once a /start interaction has given the
\* destination, no later step of the process changes it.
C16_FirstStartKept ==
    (~Truthy(TARGET_CHAT_ID) /\ bot_data.chat_id_confirmed /\ pc' # "boot") =>
        bot_data'.user_chat_id = bot_data.user_chat_id

\* C16 (b): with CHAT_ID unset, every message of a cycle went to the chat
\* /start gave.
C16_SentToStartChat ==
    ~Truthy(TARGET_CHAT_ID) =>
        \A i \in SendIdx : sends[i].chat = bot_data.user_chat_id

\* C16 (c): with CHAT_ID set, every message goes to CHAT_ID, whatever
\* /start interactions there were.
C16_ConfiguredDestination ==
    Truthy(TARGET_CHAT_ID) =>
        \A i \in SendIdx : sends[i].chat = TARGET_CHAT_ID

\* C16: the destination is CHAT_ID when it is set, and the chat of the first
\* /start interaction otherwise: (a), (b) and (c) together.
C16_DestinationFixed ==
    /\ [](C16_SentToStartChat /\ C16_ConfiguredDestination)
    /\ [][C16_FirstStartKept]_vars

\* C17 (a): no step of the process, of a crash or of a restart removes an
\* id from the ids the file holds.
C17_FileGrows ==
    FileIds(sent_items_file) \subseteq FileIds(sent_items_file')

\* C17 (b): a save_sent_item call that wrote its whole line and returned
\* has put the id among the ids the file holds.
C17_Persisted ==
    ( /\ pc \in {"send_full", "send_short"}
      /\ sends' = Returned("ok")
      /\ sent_items_file' = AppendLine(sent_items_file, ItemId(Entry)) )
    => ItemId(Entry) \in FileIds(sent_items_file')

\* C17 (c): load_sent_items makes every id of the file a member of
\* sent_item_ids, and it stays one while the process lives.
C17_LoadedAfterRestart ==
    pc \notin {"boot", "exited"} => FileIds(sent_items_file) \subseteq sent_item_ids

\* C17: the durable record grows monotonically and is loaded whole, (a),
\* (b) and (c) together.
C17_DurableMonotone ==
    /\ []C17_LoadedAfterRestart
    /\ [][C17_FileGrows /\ C17_Persisted]_vars

\* C18: once main() has loaded the file, and in every state of the process
\* after it (no save_sent_item call is ever in progress in a state: each
\* runs within one step), sent_item_ids equals the set of ids in the file.
C18_StoreConsistent ==
    pc \notin {"boot", "exited"} => sent_item_ids = FileIds(sent_items_file)

\* C19 (a): while a cycle runs and when it returns, every id that is in
\* the set or in the file and was not in the store when the cycle began is
\* the id of a send_message call of this cycle that returned.
C19_RecordedWereSent ==
    (InCycle \/ pc = "return") =>
        (sent_item_ids \cup FileIds(sent_items_file)) \ startStore \subseteq SentOk

\* C19 (b): a step of the running process that adds an id to the set or to
\* the file is the return of a send_message call for that id.
C19_RecordStep ==
    ( /\ pc # "boot" /\ pc' # "boot"
      /\ \/ sent_item_ids' # sent_item_ids
         \/ FileIds(sent_items_file') # FileIds(sent_items_file) )
    => /\ pc \in {"send_full", "send_short"}
       /\ sends' = Returned("ok")
       /\ sent_item_ids' \subseteq sent_item_ids \cup {ItemId(Entry)}
       /\ FileIds(sent_items_file') \subseteq FileIds(sent_items_file) \cup {ItemId(Entry)}

\* C19: record follows success, (a) and (b) together.
C19_RecordFollowsSuccess ==
    /\ []C19_RecordedWereSent
    /\ [][C19_RecordStep]_vars

\* C20: after a send_message call for an id has returned, the cycle makes
\* no further send attempt for that id, wherever else the id occurs in the
\* feed; so at most one send per id succeeds in a cycle.
C20_DuplicateInFeedSentOnce ==
    \A i, j \in SendIdx :
        (i < j /\ sends[i].res = "ok") => sends[j].id # sends[i].id

\* a cycle over a feed that holds one id twice sent it once
C20_Witness ==
    /\ CycleOver
    /\ \E k1, k2 \in 1..Len(entries) :
           /\ k1 < k2
           /\ Truthy(ItemId(entries[k1]))
           /\ ItemId(entries[k1]) = ItemId(entries[k2])
           /\ entries[k1] # entries[k2]
           /\ \E i \in SendIdx : sends[i].id = ItemId(entries[k1]) /\ sends[i].res = "ok"
           /\ Cardinality(SendsOf(ItemId(entries[k1]))) = 1

====
